---- MODULE Spec2Model ----
(***************************************************************************)
(* A model of the class planner: the timetable builder and the snapshot    *)
(* cache of course_data.py, and the schedule, conflict and calendar-export *)
(* handlers of app_production.py.                                          *)
(*                                                                         *)
(* Python strings that the code inspects character by character (class     *)
(* sections, time strings) are sequences of one-character strings; ''      *)
(* is <<>>.  Strings that are only compared for equality (course codes,    *)
(* venues, instructors, titles) are TLA+ strings.                          *)
(***************************************************************************)
EXTENDS Integers, Sequences, FiniteSets, TLC

VARIABLES
    xlsx,               \* the workbook on disk: [rows, mtime]
    cache,              \* the snapshot file: [exists, readable, mtime, data]
    clock,              \* the file system's clock
    processed_courses,  \* CourseDataProcessor.processed_courses
    ctor,               \* what the last construction did
    session,            \* the session's schedules, one list per semester
    last                \* the last request and its response

vars == <<xlsx, cache, clock, processed_courses, ctor, session, last>>

(***************************************************************************)
(* Values                                                                  *)
(***************************************************************************)
NaN == <<"NaN">>        \* a missing cell whose text the code inspects
NaNText == "NaN"        \* a missing cell otherwise
None == <<>>            \* processed_courses before it is set
ValueError == <<-1, -1, -1>>    \* strptime raised ValueError

Range(s) == {s[i] : i \in 1..Len(s)}

\* str(cell) of a string cell; str(nan) is 'nan'
Str(x) == IF x = NaN THEN <<"n", "a", "n">> ELSE x

\* str(cell) if pd.notna(cell) else ''
StrOrEmpty(x) == IF x # NaN THEN x ELSE <<>>

TextOrEmpty(x) == IF x # NaNText THEN x ELSE ""

(***************************************************************************)
(* datetime.strptime(s, fmt).time() for the formats '%H:%M:%S' and '%H:%M' *)
(***************************************************************************)
Digits == <<"0", "1", "2", "3", "4", "5", "6", "7", "8", "9">>

IsDigit(c) == \E i \in 1..Len(Digits) : Digits[i] = c

DigitVal(c) == (CHOOSE i \in 1..Len(Digits) : Digits[i] = c) - 1

\* The fields of s between the ':' separators.
RECURSIVE SplitColon(_, _, _)
SplitColon(s, i, cur) ==
    IF i > Len(s) THEN <<cur>>
    ELSE IF s[i] = ":" THEN <<cur>> \o SplitColon(s, i + 1, <<>>)
    ELSE SplitColon(s, i + 1, Append(cur, s[i]))

\* One directive (%H, %M, %S): one or two digits, at most `top`
\* (the regular expressions 2[0-3]|[0-1]\d|\d, [0-5]\d|\d, 6[0-1]|[0-5]\d|\d).
FieldOk(f, top) ==
    /\ Len(f) \in {1, 2}
    /\ \A i \in 1..Len(f) : IsDigit(f[i])
    /\ (IF Len(f) = 1 THEN DigitVal(f[1])
        ELSE 10 * DigitVal(f[1]) + DigitVal(f[2])) <= top

FieldVal(f) ==
    IF Len(f) = 1 THEN DigitVal(f[1]) ELSE 10 * DigitVal(f[1]) + DigitVal(f[2])

\* strptime(s, '%H:%M:%S').time(): <<h, m, s>>, or ValueError.  A second of
\* 60 or 61 matches the directive and is refused by the datetime constructor.
strptime_HMS(s) ==
    LET f == SplitColon(s, 1, <<>>) IN
    IF /\ Len(f) = 3
       /\ FieldOk(f[1], 23) /\ FieldOk(f[2], 59) /\ FieldOk(f[3], 61)
       /\ FieldVal(f[3]) <= 59
    THEN <<FieldVal(f[1]), FieldVal(f[2]), FieldVal(f[3])>>
    ELSE ValueError

\* strptime(s, '%H:%M').time()
strptime_HM(s) ==
    LET f == SplitColon(s, 1, <<>>) IN
    IF Len(f) = 2 /\ FieldOk(f[1], 23) /\ FieldOk(f[2], 59)
    THEN <<FieldVal(f[1]), FieldVal(f[2]), 0>>
    ELSE ValueError

\* datetime.time ordering
TimeLeq(a, b) ==
    \/ a[1] < b[1]
    \/ a[1] = b[1] /\ a[2] < b[2]
    \/ a[1] = b[1] /\ a[2] = b[2] /\ a[3] <= b[3]

TimeLt(a, b) == TimeLeq(a, b) /\ a # b

(***************************************************************************)
(* The timetable builder                                                   *)
(***************************************************************************)
DayColumns == <<"MON", "TUE", "WED", "THU", "FRI", "SAT", "SUN">>

\* sorted() of day names
AlphaDays == <<"FRI", "MON", "SAT", "SUN", "THU", "TUE", "WED">>

Semesters == <<"Sem1", "Sem2", "Summer", "Other">>

get_semester_from_section(section) ==
    LET section_str == Str(section) IN
    IF section_str # <<>> /\ section_str[1] = "1" THEN "Sem1"
    ELSE IF section_str # <<>> /\ section_str[1] = "2" THEN "Sem2"
    ELSE IF section_str # <<>> /\ section_str[1] = "S" THEN "Summer"
    ELSE "Other"

\* The days whose column of the row is not null, in column order.
RowDays(row) == SelectSeq(DayColumns, LAMBDA d : d \in row.flags)

RowEntry(row) ==
    [section |-> StrOrEmpty(row.section),
     days |-> RowDays(row),
     start_time |-> StrOrEmpty(row.start_time),
     end_time |-> StrOrEmpty(row.end_time),
     venue |-> TextOrEmpty(row.venue),
     instructor |-> TextOrEmpty(row.instructor),
     class_number |-> TextOrEmpty(row.class_number)]

\* tuple(sorted(days))
day_tuple(days) == SelectSeq(AlphaDays, LAMBDA d : d \in Range(days))

\* The values of s in order of first appearance.
RECURSIVE Distinct(_)
Distinct(s) ==
    IF s = <<>> THEN <<>>
    ELSE LET f == Distinct(SubSeq(s, 1, Len(s) - 1)) IN
         IF s[Len(s)] \in Range(f) THEN f ELSE Append(f, s[Len(s)])

\* Time slots with no entry left out.
TimeSlotsOf_all(class_entries, processed_day_combinations) ==
    [i \in 1..Len(class_entries) |->
        [days |-> class_entries[i].days,
         start_time |-> class_entries[i].start_time,
         end_time |-> class_entries[i].end_time,
         venue |-> class_entries[i].venue,
         instructor |-> class_entries[i].instructor]]

\* The time slots of one class number: the first entry of each day combination.
RECURSIVE TimeSlotsOf(_, _)
TimeSlotsOf(class_entries, processed_day_combinations) ==
    IF class_entries = <<>> THEN <<>>
    ELSE LET entry == Head(class_entries)
             key == day_tuple(entry.days)
         IN IF key \notin processed_day_combinations
            THEN <<[days |-> entry.days,
                    start_time |-> entry.start_time,
                    end_time |-> entry.end_time,
                    venue |-> entry.venue,
                    instructor |-> entry.instructor]>>
                 \o TimeSlotsOf(Tail(class_entries),
                                processed_day_combinations \cup {key})
            ELSE TimeSlotsOf(Tail(class_entries), processed_day_combinations)

SubclassOf(class_number, class_entries) ==
    LET first_entry == class_entries[1] IN
    [label |-> first_entry.section,
     section |-> first_entry.section,
     class_number |-> class_number,
     instructor |-> first_entry.instructor,
     time_slots |-> TimeSlotsOf(class_entries, {})]

\* subclasses[label] = sub on an insertion-ordered dict
DictPut(subclasses, sub) ==
    IF \E i \in 1..Len(subclasses) : subclasses[i].label = sub.label
    THEN [i \in 1..Len(subclasses) |->
            IF subclasses[i].label = sub.label THEN sub ELSE subclasses[i]]
    ELSE Append(subclasses, sub)

RECURSIVE SubclassesOf(_, _)
SubclassesOf(entries, class_numbers) ==
    IF class_numbers = <<>> THEN <<>>
    ELSE LET n == Len(class_numbers)
             class_number == class_numbers[n]
             class_entries ==
                 SelectSeq(entries, LAMBDA e : e.class_number = class_number)
         IN DictPut(SubclassesOf(entries, SubSeq(class_numbers, 1, n - 1)),
                    SubclassOf(class_number, class_entries))

\* The offering of one (course code, semester) group of rows.
OfferingOf(course_code, course_info, semester, semester_group) ==
    LET entries == [i \in 1..Len(semester_group) |-> RowEntry(semester_group[i])]
        class_numbers == Distinct([i \in 1..Len(entries) |-> entries[i].class_number])
    IN [code |-> course_code,
        title |-> TextOrEmpty(course_info.title),
        department |-> TextOrEmpty(course_info.dept),
        semester |-> semester,
        subclasses |-> SubclassesOf(entries, class_numbers)]

\* Course codes in the order of Python's string comparison.
CodeOrder == <<"COMP101", "COMP102", "MATH201">>

\* groupby('COURSE CODE'): the codes of the rows, sorted, without the null one.
SortedCodes(rows) ==
    SelectSeq(CodeOrder, LAMBDA c : \E i \in 1..Len(rows) : rows[i].code = c)

RECURSIVE CoursesOfSemester(_, _, _)
CoursesOfSemester(rows, codes, semester) ==
    IF codes = <<>> THEN <<>>
    ELSE LET course_code == Head(codes)
             course_group == SelectSeq(rows, LAMBDA r : r.code = course_code)
             semester_group ==
                 SelectSeq(course_group,
                           LAMBDA r : get_semester_from_section(r.section) = semester)
             rest == CoursesOfSemester(rows, Tail(codes), semester)
         IN IF semester_group # <<>>
            THEN <<OfferingOf(course_code, course_group[1], semester,
                              semester_group)>> \o rest
            ELSE rest

\* courses_by_semester: the four semesters, each with its insertion-ordered
\* dict of offerings
process_courses(rows) ==
    [k \in 1..Len(Semesters) |->
        [semester |-> Semesters[k],
         courses |-> CoursesOfSemester(rows, SortedCodes(rows), Semesters[k])]]

(***************************************************************************)
(* Catalog lookups and the conflict detector                               *)
(***************************************************************************)
\* self.processed_courses.get(semester, {})
get_courses_by_semester(catalog, semester) ==
    IF \E k \in 1..Len(catalog) : catalog[k].semester = semester
    THEN catalog[CHOOSE k \in 1..Len(catalog) : catalog[k].semester = semester].courses
    ELSE <<>>

HasCourse(catalog, course_code, semester) ==
    \E c \in Range(get_courses_by_semester(catalog, semester)) : c.code = course_code

\* semester_courses.get(course_code), where HasCourse
get_course_by_code_and_semester(catalog, course_code, semester) ==
    CHOOSE c \in Range(get_courses_by_semester(catalog, semester)) :
        c.code = course_code

\* subclass_label in course['subclasses']
HasSubclass(course, subclass_label) ==
    \E s \in Range(course.subclasses) : s.label = subclass_label

GetSubclass(course, subclass_label) ==
    CHOOSE s \in Range(course.subclasses) : s.label = subclass_label

\* course and subclass_label in course['subclasses']
Resolves(catalog, item, semester) ==
    /\ HasCourse(catalog, item.course_code, semester)
    /\ HasSubclass(get_course_by_code_and_semester(catalog, item.course_code, semester),
                   item.subclass)

ResolvedSubclass(catalog, item, semester) ==
    GetSubclass(get_course_by_code_and_semester(catalog, item.course_code, semester),
                item.subclass)

RECURSIVE Flatten(_)
Flatten(ss) == IF ss = <<>> THEN <<>> ELSE Head(ss) \o Flatten(Tail(ss))

\* The interval records of one time slot, one per day of its day list.
SlotIntervals(time_slot, course_code, subclass_label) ==
    [d \in 1..Len(time_slot.days) |->
        [day |-> time_slot.days[d],
         start |-> time_slot.start_time,
         end |-> time_slot.end_time,
         course |-> <<course_code, subclass_label>>]]

ItemIntervals(catalog, item, semester) ==
    IF Resolves(catalog, item, semester)
    THEN LET subclass == ResolvedSubclass(catalog, item, semester) IN
         Flatten([t \in 1..Len(subclass.time_slots) |->
                    SlotIntervals(subclass.time_slots[t], item.course_code,
                                  item.subclass)])
    ELSE <<>>

\* The first loop of get_time_conflict: the list time_slots.
ExpandSchedule(catalog, schedule, semester) ==
    Flatten([n \in 1..Len(schedule) |-> ItemIntervals(catalog, schedule[n], semester)])

\* An overlap test that counts touching intervals as overlapping.
_time_overlap_touching(start1, end1, start2, end2) ==
    LET s1 == strptime_HMS(start1)
        e1 == strptime_HMS(end1)
        s2 == strptime_HMS(start2)
        e2 == strptime_HMS(end2)
    IN IF ValueError \in {s1, e1, s2, e2}
       THEN FALSE
       ELSE ~(TimeLt(e1, s2) \/ TimeLt(e2, s1))

_time_overlap(start1, end1, start2, end2) ==
    LET s1 == strptime_HMS(start1)
        e1 == strptime_HMS(end1)
        s2 == strptime_HMS(start2)
        e2 == strptime_HMS(end2)
    IN IF ValueError \in {s1, e1, s2, e2}
       THEN FALSE
       ELSE ~(TimeLeq(e1, s2) \/ TimeLeq(e2, s1))

\* range(i + 1, n) for each i of range(n), in loop order
RECURSIVE IndexPairs(_, _, _)
IndexPairs(i, j, n) ==
    IF i > n THEN <<>>
    ELSE IF j > n THEN IndexPairs(i + 1, i + 2, n)
    ELSE <<(<<i, j>>)>> \o IndexPairs(i, j + 1, n)

\* The index pairs the second loop of get_time_conflict reports, in order.
ConflictPairs(time_slots) ==
    SelectSeq(IndexPairs(1, 2, Len(time_slots)),
              LAMBDA p :
                  /\ time_slots[p[1]].day = time_slots[p[2]].day
                  /\ _time_overlap(time_slots[p[1]].start, time_slots[p[1]].end,
                                   time_slots[p[2]].start, time_slots[p[2]].end))

get_time_conflict(catalog, schedule, semester) ==
    LET time_slots == ExpandSchedule(catalog, schedule, semester)
        pairs == ConflictPairs(time_slots)
    IN [k \in 1..Len(pairs) |->
          <<time_slots[pairs[k][1]].course, time_slots[pairs[k][2]].course>>]

(***************************************************************************)
(* The calendar exporter                                                   *)
(***************************************************************************)
\* A date is its proleptic Gregorian ordinal (datetime.toordinal()).
IsLeap(y) == y % 4 = 0 /\ (y % 100 # 0 \/ y % 400 = 0)

DaysInMonth(y, m) ==
    IF m = 2 THEN (IF IsLeap(y) THEN 29 ELSE 28)
    ELSE IF m \in {4, 6, 9, 11} THEN 30 ELSE 31

DaysBeforeYear(y) ==
    (y - 1) * 365 + (y - 1) \div 4 - (y - 1) \div 100 + (y - 1) \div 400

\* _DAYS_BEFORE_MONTH
DaysBeforeMonthTable == <<0, 31, 59, 90, 120, 151, 181, 212, 243, 273, 304, 334>>

DaysBeforeMonth(y, m) ==
    DaysBeforeMonthTable[m] + (IF m > 2 /\ IsLeap(y) THEN 1 ELSE 0)

\* datetime(y, m, d).toordinal()
Ymd2Ord(y, m, d) == DaysBeforeYear(y) + DaysBeforeMonth(y, m) + d

\* date.fromordinal(n): <<year, month, day>>
Ord2Ymd(n) ==
    LET y == CHOOSE yy \in (n \div 366)..(n \div 365 + 1) :
                 DaysBeforeYear(yy) < n /\ n <= DaysBeforeYear(yy + 1)
        r == n - DaysBeforeYear(y)
        m == CHOOSE mm \in 1..12 :
                 DaysBeforeMonth(y, mm) < r
                 /\ r <= DaysBeforeMonth(y, mm) + DaysInMonth(y, mm)
    IN <<y, m, r - DaysBeforeMonth(y, m)>>

\* date.weekday(): Monday is 0
Weekday(n) == (n + 6) % 7

\* strftime('%Y%m%dT%H%M%S') of a date and a time: the two numbers whose
\* decimal digits are the text before and after the T
format_datetime_tz(n, t) ==
    LET ymd == Ord2Ymd(n) IN
    <<ymd[1] * 10000 + ymd[2] * 100 + ymd[3], t[1] * 10000 + t[2] * 100 + t[3]>>

\* datetime.max.time(), to the second
MaxTime == <<23, 59, 59>>

\* timedelta(weeks=16), in days
SixteenWeeks == 112

\* Semester dates whose first semester ends with the year.
get_semester_dates_dec31(semester, today) ==
    LET current_year == Ord2Ymd(today)[1] IN
    IF semester = "Sem1"
    THEN <<Ymd2Ord(current_year, 9, 2), Ymd2Ord(current_year, 12, 31)>>
    ELSE <<today, today + SixteenWeeks>>

\* get_semester_dates when datetime.now() is a moment of the day `today`:
\* <<start_date, end_date>>
get_semester_dates(semester, today) ==
    LET current_year == Ord2Ymd(today)[1] IN
    IF semester = "Sem1"
    THEN <<Ymd2Ord(current_year, 9, 1), Ymd2Ord(current_year, 12, 20)>>
    ELSE IF semester = "Sem2"
    THEN <<Ymd2Ord(current_year, 2, 1), Ymd2Ord(current_year, 5, 31)>>
    ELSE IF semester = "Summer"
    THEN <<Ymd2Ord(current_year, 6, 1), Ymd2Ord(current_year, 8, 31)>>
    ELSE <<today, today + SixteenWeeks>>

\* day_mapping.get(day); None is -1
day_mapping(day) ==
    IF \E i \in 1..Len(DayColumns) : DayColumns[i] = day
    THEN (CHOOSE i \in 1..Len(DayColumns) : DayColumns[i] = day) - 1
    ELSE -1

\* The most iterations of the weekday search that are followed.
LoopCap == 10

\* while current.weekday() != target_weekday: current += timedelta(days=1)
\* The date the loop ends with, or -1 when it is still running after LoopCap
\* iterations.
RECURSIVE FirstOccurrence(_, _, _)
FirstOccurrence(current, target_weekday, steps) ==
    IF Weekday(current) = target_weekday THEN current
    ELSE IF steps >= LoopCap THEN -1
    ELSE FirstOccurrence(current + 1, target_weekday, steps + 1)

\* A parse that knows the format with seconds only.
ExportParse_seconds(time_str) == strptime_HMS(time_str)

\* The two branches on len(time_str) == 8
ExportParse(time_str) ==
    IF Len(time_str) = 8 THEN strptime_HMS(time_str) ELSE strptime_HM(time_str)

\* The event of one (time slot, day), as a one-element list, or [].  `src` is
\* not in the document: it names the (selection, slot, day) the event is of.
create_recurring_events(course, time_slot, day, semester_dates, course_code, subclass_label, src) ==
    LET target_weekday == day_mapping(day)
        current == FirstOccurrence(semester_dates[1], target_weekday, 0)
        start_time == ExportParse(time_slot.start_time)
        end_time == ExportParse(time_slot.end_time)
    IN IF target_weekday = -1 THEN <<>>
       ELSE IF start_time = ValueError \/ end_time = ValueError THEN <<>>
       ELSE <<[uid |-> <<course_code, subclass_label, day,
                         format_datetime_tz(current, start_time)>>,
               dtstart |-> format_datetime_tz(current, start_time),
               dtend |-> format_datetime_tz(current, end_time),
               first |-> current,
               until |-> format_datetime_tz(semester_dates[2], MaxTime),
               summary |-> <<course_code, course.title>>,
               instructor |-> time_slot.instructor,
               location |-> time_slot.venue,
               src |-> src]>>

SlotEvents(course, time_slot, semester_dates, course_code, subclass_label, n, t) ==
    Flatten([d \in 1..Len(time_slot.days) |->
        create_recurring_events(course, time_slot, time_slot.days[d],
                                semester_dates, course_code, subclass_label,
                                <<n, t, d>>)])

ItemEvents(catalog, item, semester, semester_dates, n) ==
    IF ~Resolves(catalog, item, semester) THEN <<>>
    ELSE LET course == get_course_by_code_and_semester(catalog, item.course_code,
                                                       semester)
             subclass == GetSubclass(course, item.subclass)
         IN Flatten([t \in 1..Len(subclass.time_slots) |->
                SlotEvents(course, subclass.time_slots[t], semester_dates,
                           item.course_code, item.subclass, n, t)])

\* The VEVENT blocks of the document, in order (the header and the footer
\* are fixed lines).
generate_ics_calendar(catalog, schedule, semester, today) ==
    LET semester_dates == get_semester_dates(semester, today) IN
    Flatten([n \in 1..Len(schedule) |->
        ItemEvents(catalog, schedule[n], semester, semester_dates, n)])

(***************************************************************************)
(* Workbook rows                                                           *)
(***************************************************************************)
Row(code, section, class_number, flags, start_time, end_time, venue, instructor) ==
    [code |-> code, title |-> "Title of " \o code, dept |-> "CS",
     section |-> section, class_number |-> class_number, flags |-> flags,
     start_time |-> start_time, end_time |-> end_time,
     venue |-> venue, instructor |-> instructor]

T0900 == <<"0", "9", ":", "0", "0", ":", "0", "0">>
T0930 == <<"0", "9", ":", "3", "0", ":", "0", "0">>
T1000 == <<"1", "0", ":", "0", "0", ":", "0", "0">>
T1030 == <<"1", "0", ":", "3", "0", ":", "0", "0">>
T1100 == <<"1", "1", ":", "0", "0", ":", "0", "0">>
S0900 == <<"0", "9", ":", "0", "0">>
S1000 == <<"1", "0", ":", "0", "0">>
S1400 == <<"1", "4", ":", "0", "0">>
S1500 == <<"1", "5", ":", "0", "0">>
TBA == <<"T", "B", "A">>

\* The rows a workbook is made of.
Pool ==
    << \* 1: COMP101 1A, Monday 9 to 10
       Row("COMP101", <<"1", "A">>, "001", {"MON"}, T0900, T1000, "Room A", "Ann"),
       \* 2: COMP102 1A, Monday 9:30 to 10:30: overlaps 1
       Row("COMP102", <<"1", "A">>, "002", {"MON"}, T0930, T1030, "Room B", "Bob"),
       \* 3: COMP101 1A again, Monday and Wednesday 9 to 10 written "HH:MM"
       Row("COMP101", <<"1", "A">>, "001", {"MON", "WED"}, S0900, S1000, "Room A", "Ann"),
       \* 4: COMP102 1B, Monday from 9 with no readable end
       Row("COMP102", <<"1", "B">>, "003", {"MON"}, T0900, TBA, "Room C", "Cy"),
       \* 5: COMP102 1A again, Monday and Tuesday 10 to 11: touches 1, overlaps 2
       Row("COMP102", <<"1", "A">>, "002", {"MON", "TUE"}, T1000, T1100, "Room B", "Bob"),
       \* 6: COMP101 2A, no day and no time
       Row("COMP101", <<"2", "A">>, "006", {}, NaN, NaN, NaNText, NaNText),
       \* 7: COMP101 SA, Saturday 14 to 15 written "HH:MM"
       Row("COMP101", <<"S", "A">>, "007", {"SAT"}, S1400, S1500, "Lab", "Ann"),
       \* 8: COMP102 X1, Sunday 9 to 10
       Row("COMP102", <<"X", "1">>, "008", {"SUN"}, T0900, T1000, "Hall", "Bob"),
       \* 9: COMP102 2A, Friday 9 to 10
       Row("COMP102", <<"2", "A">>, "010", {"FRI"}, T0900, T1000, "Room B", "Bob"),
       \* 10: COMP101 1A again, Wednesday 9 to 10
       Row("COMP101", <<"1", "A">>, "001", {"WED"}, T0900, T1000, "Room A", "Ann"),
       \* 11: COMP101 1A again, Monday 9:30 to 10:30 elsewhere
       Row("COMP101", <<"1", "A">>, "001", {"MON"}, T0930, T1030, "Room B", "Bob"),
       \* 12: COMP101 with section 1A under another class number
       Row("COMP101", <<"1", "A">>, "004", {"TUE"}, T0900, T1000, "Room D", "Dee"),
       \* 13: a row with no course code
       Row(NaNText, <<"1", "C">>, "009", {"FRI"}, T0900, T1000, "Room E", "Eve"),
       \* 14: COMP102 with no section and no class number
       Row("COMP102", NaN, NaNText, {"THU", "FRI"}, T0900, T1000, "Room F", NaNText) >>

\* The most rows of the workbook behind a session's catalog.
MaxRows == 2

RECURSIVE SeqsUpTo(_, _)
SeqsUpTo(S, n) ==
    IF n = 0 THEN {<<>>}
    ELSE LET shorter == SeqsUpTo(S, n - 1) IN
         shorter \cup {Append(q, x) : q \in {r \in shorter : Len(r) = n - 1}, x \in S}

\* The workbooks of one to n rows of the pool, in any order.
Workbooks(indices, n) ==
    {[i \in 1..Len(q) |-> Pool[q[i]]] : q \in SeqsUpTo(indices, n) \ {<<>>}}

(***************************************************************************)
(* Requests                                                                *)
(***************************************************************************)
\* The semesters a request may name: those of the catalog and one that is not.
ArgSemesters == Range(Semesters) \cup {"Sem9"}

CatalogCodes(catalog) ==
    UNION {{c.code : c \in Range(catalog[k].courses)} : k \in 1..Len(catalog)}

CatalogLabels(catalog) ==
    UNION {UNION {{sc.label : sc \in Range(c.subclasses)} :
                     c \in Range(catalog[k].courses)} : k \in 1..Len(catalog)}

\* The course codes, labels and semesters requests are made with: those of
\* the catalog, a blank one, and a semester that is no partition.
ArgCodes == CatalogCodes(processed_courses) \cup {""}
ArgLabels == CatalogLabels(processed_courses) \cup {<<>>}
ArgSems ==
    {processed_courses[k].semester : k \in
        {j \in 1..Len(processed_courses) : processed_courses[j].courses # <<>>}}
    \cup {"Sem9"}

\* The days datetime.now() is drawn from: the 28th of December of some years.
MinYear == 2024
MaxYear == 2027
Todays == {Ymd2Ord(y, 12, 28) : y \in MinYear..MaxYear}

NoSession == [s \in ArgSemesters |-> <<>>]

\* A request and its response: `before` is the session the request found,
\* `today` the day of an export's datetime.now(), `window` its semester dates.
Response(op, course_code, subclass, semester, status, error, conflicts, before, events, today, window) ==
    [op |-> op, course_code |-> course_code, subclass |-> subclass,
     semester |-> semester, status |-> status, error |-> error,
     conflicts |-> conflicts, before |-> before, events |-> events,
     today |-> today, window |-> window]

NoWindow == <<0, 0>>

\* A duplicate check that finds nothing.
AlreadyInSchedule_never(schedule, course_code) == FALSE

\* for item in schedule: if item['course_code'] == course_code
AlreadyInSchedule(schedule, course_code) ==
    \E n \in 1..Len(schedule) : schedule[n].course_code = course_code

\* An add that appends whatever it is given, asking nothing.
api_schedule_post_unchecked(course_code, subclass, semester) ==
    /\ session' = [session EXCEPT ![semester] =
           Append(session[semester], [course_code |-> course_code,
                                      subclass |-> subclass,
                                      course_title |-> "",
                                      semester |-> semester])]
    /\ last' = Response("add", course_code, subclass, semester, 200, "", <<>>,
                        session, <<>>, 0, NoWindow)

\* POST /api/schedule
api_schedule_post(course_code, subclass, semester) ==
    LET schedule == session[semester]
        course == get_course_by_code_and_semester(processed_courses, course_code,
                                                  semester)
        new_schedule ==
            Append(schedule, [course_code |-> course_code, subclass |-> subclass])
        conflicts == get_time_conflict(processed_courses, new_schedule, semester)
        Reject(error, found) ==
            /\ last' = Response("add", course_code, subclass, semester, 400, error,
                                found, session, <<>>, 0, NoWindow)
            /\ session' = session
    IN IF course_code = "" \/ subclass = <<>>
       THEN Reject("Missing course_code or subclass", <<>>)
       ELSE IF \/ ~HasCourse(processed_courses, course_code, semester)
               \/ ~HasSubclass(course, subclass)
       THEN Reject("Invalid course or subclass", <<>>)
       ELSE IF AlreadyInSchedule(schedule, course_code)
       THEN Reject("Course already in schedule", <<>>)
       ELSE IF conflicts # <<>>
       THEN Reject("Time conflict detected", conflicts)
       ELSE /\ session' = [session EXCEPT ![semester] =
                   Append(schedule, [course_code |-> course_code,
                                     subclass |-> subclass,
                                     course_title |-> course.title,
                                     semester |-> semester])]
            /\ last' = Response("add", course_code, subclass, semester, 200, "",
                                <<>>, session, <<>>, 0, NoWindow)

AddToSchedule ==
    /\ \E course_code \in ArgCodes, subclass \in ArgLabels, semester \in ArgSems :
           api_schedule_post(course_code, subclass, semester)
    /\ UNCHANGED <<xlsx, cache, clock, processed_courses, ctor>>

\* A removal that empties the semester's schedule.
api_remove_from_schedule_all(course_code, semester) ==
    /\ session' = [session EXCEPT ![semester] = <<>>]
    /\ last' = Response("remove", course_code, <<>>, semester, 200, "", <<>>,
                        session, <<>>, 0, NoWindow)

\* POST /api/schedule/remove
api_remove_from_schedule(course_code, semester) ==
    /\ session' = [session EXCEPT ![semester] =
           SelectSeq(session[semester], LAMBDA item : item.course_code # course_code)]
    /\ last' = Response("remove", course_code, <<>>, semester, 200, "", <<>>,
                        session, <<>>, 0, NoWindow)

RemoveFromSchedule ==
    /\ \E course_code \in ArgCodes, semester \in ArgSems :
           api_remove_from_schedule(course_code, semester)
    /\ UNCHANGED <<xlsx, cache, clock, processed_courses, ctor>>

\* GET /api/schedule/conflicts
api_schedule_conflicts(semester) ==
    /\ last' = Response("conflicts", "", <<>>, semester, 200, "",
                        get_time_conflict(processed_courses, session[semester],
                                          semester),
                        session, <<>>, 0, NoWindow)
    /\ session' = session

CheckConflicts ==
    /\ \E semester \in ArgSems : api_schedule_conflicts(semester)
    /\ UNCHANGED <<xlsx, cache, clock, processed_courses, ctor>>

\* GET /api/schedule/export-ics
api_export_ics(semester, today) ==
    /\ session' = session
    /\ IF session[semester] = <<>>
       THEN last' = Response("export", "", <<>>, semester, 400,
                             "No courses in schedule", <<>>, session, <<>>, 0,
                             NoWindow)
       ELSE last' = Response("export", "", <<>>, semester, 200, "", <<>>, session,
                             generate_ics_calendar(processed_courses,
                                                   session[semester], semester, today),
                             today, get_semester_dates(semester, today))

ExportIcs ==
    /\ \E semester \in ArgSems, today \in Todays : api_export_ics(semester, today)
    /\ UNCHANGED <<xlsx, cache, clock, processed_courses, ctor>>

(***************************************************************************)
(* Spec: one session of requests against a catalog.  The processor was     *)
(* constructed from a snapshot of some workbook; no request reads the      *)
(* workbook or the snapshot, which are left out of the state.              *)
(***************************************************************************)
NoFile == [rows |-> <<>>, mtime |-> 0]
NoCache == [exists |-> FALSE, readable |-> FALSE, mtime |-> 0, data |-> None]
NoCtor == [path |-> "", saved |-> "", was_intact |-> FALSE, intact |-> FALSE,
           pre_xlsx |-> NoFile, pre_cache |-> NoCache]
NoResponse ==
    Response("", "", <<>>, "", 0, "", <<>>, NoSession, <<>>, 0, NoWindow)

\* The rows of the pool the session's catalogs are built from.
SessionRows == 1..9

Init ==
    /\ xlsx = NoFile
    /\ cache = NoCache
    /\ clock = 0
    /\ ctor = NoCtor
    /\ processed_courses \in {process_courses(w) : w \in Workbooks(SessionRows, MaxRows)}
    /\ session = NoSession
    /\ last = NoResponse

Next == AddToSchedule \/ RemoveFromSchedule \/ CheckConflicts \/ ExportIcs

Spec == Init /\ [][Next]_vars

(***************************************************************************)
(* Construction of the processor and the snapshot file                     *)
(***************************************************************************)
\* A staleness test that also discards a snapshot as old as the workbook.
_should_reload_cache_equal ==
    IF ~cache.exists THEN TRUE ELSE xlsx.mtime >= cache.mtime

_should_reload_cache ==
    IF ~cache.exists THEN TRUE ELSE xlsx.mtime > cache.mtime

\* How _save_to_cache may end: the snapshot written; open() refused; the
\* file opened (and truncated) and pickle.dump failed.
SaveOutcomes == {"saved", "open failed", "dump failed"}

\* The snapshot file after _save_to_cache of `catalog` ends with `outcome`.
_save_to_cache(catalog, outcome) ==
    IF outcome = "saved"
    THEN [exists |-> TRUE, readable |-> TRUE, mtime |-> clock, data |-> catalog]
    ELSE IF outcome = "dump failed"
    THEN [exists |-> TRUE, readable |-> FALSE, mtime |-> clock, data |-> None]
    ELSE cache

\* _load_and_process_data; path is how __init__ came to it
_load_and_process_data(path, outcome) ==
    /\ processed_courses' = process_courses(xlsx.rows)
    /\ cache' = _save_to_cache(process_courses(xlsx.rows), outcome)
    /\ ctor' = [path |-> path, saved |-> outcome, was_intact |-> ctor.intact,
                intact |-> (outcome = "saved"),
                pre_xlsx |-> xlsx, pre_cache |-> cache]

\* _load_from_cache
_load_from_cache(outcome) ==
    IF cache.readable
    THEN /\ processed_courses' = cache.data
         /\ cache' = cache
         /\ ctor' = [path |-> "snapshot", saved |-> "", was_intact |-> ctor.intact,
                     intact |-> ctor.intact, pre_xlsx |-> xlsx, pre_cache |-> cache]
    ELSE _load_and_process_data("recovered", outcome)

\* CourseDataProcessor.__init__, at a start of the application
Construct ==
    /\ \E outcome \in SaveOutcomes :
           IF _should_reload_cache
           THEN _load_and_process_data("rebuilt", outcome)
           ELSE _load_from_cache(outcome)
    /\ UNCHANGED <<xlsx, clock, session, last>>

\* The latest time of the clock.
MaxClock == 3

Tick ==
    /\ clock < MaxClock
    /\ clock' = clock + 1
    /\ UNCHANGED <<xlsx, cache, processed_courses, ctor, session, last>>

\* The rows of the pool the workbook is rewritten with.
CacheRows == {1, 2, 9}

\* The workbook is written anew (as process_backup_data.py writes it).
WriteWorkbook ==
    /\ \E w \in Workbooks(CacheRows, 1) : xlsx' = [rows |-> w, mtime |-> clock]
    /\ ctor' = [ctor EXCEPT !.intact = FALSE]
    /\ UNCHANGED <<cache, clock, processed_courses, session, last>>

\* os.remove(cache_file) of process_backup_data.py
RemoveSnapshot ==
    /\ cache.exists
    /\ cache' = NoCache
    /\ ctor' = [ctor EXCEPT !.intact = FALSE]
    /\ UNCHANGED <<xlsx, clock, processed_courses, session, last>>

\* The snapshot file is damaged: pickle.load of it will raise.
DamageSnapshot ==
    /\ cache.exists /\ cache.readable
    /\ cache' = [cache EXCEPT !.readable = FALSE, !.data = None]
    /\ ctor' = [ctor EXCEPT !.intact = FALSE]
    /\ UNCHANGED <<xlsx, clock, processed_courses, session, last>>

(***************************************************************************)
(* SpecCache: the application is started again and again while the         *)
(* workbook and the snapshot change on disk.                               *)
(***************************************************************************)
InitCache ==
    /\ xlsx \in {[rows |-> w, mtime |-> 0] : w \in Workbooks(CacheRows, 1)}
    /\ cache = NoCache
    /\ clock = 0
    /\ ctor = NoCtor
    /\ processed_courses = None
    /\ session = NoSession
    /\ last = NoResponse

NextCache ==
    Construct \/ Tick \/ WriteWorkbook \/ RemoveSnapshot \/ DamageSnapshot

SpecCache == InitCache /\ [][NextCache]_vars

(***************************************************************************)
(* SpecBuild: the catalog is built from a workbook of any rows of the pool *)
(***************************************************************************)
\* The most rows of a workbook the builder is given.
MaxBuildRows == 3

InitBuild ==
    /\ xlsx \in {[rows |-> w, mtime |-> 0] :
                    w \in Workbooks(1..Len(Pool), MaxBuildRows)}
    /\ cache = NoCache
    /\ clock = 0
    /\ ctor = NoCtor
    /\ processed_courses = None
    /\ session = NoSession
    /\ last = NoResponse

NextBuild == Construct

SpecBuild == InitBuild /\ [][NextBuild]_vars

(***************************************************************************)
(* Search: the processor's search over a catalog.  A search reads the       *)
(* catalog and changes neither it nor the session.                         *)
(***************************************************************************)
UpperLetters ==
    <<"A", "B", "C", "D", "E", "F", "G", "H", "I", "J", "K", "L", "M",
      "N", "O", "P", "Q", "R", "S", "T", "U", "V", "W", "X", "Y", "Z">>

LowerLetters ==
    <<"a", "b", "c", "d", "e", "f", "g", "h", "i", "j", "k", "l", "m",
      "n", "o", "p", "q", "r", "s", "t", "u", "v", "w", "x", "y", "z">>

\* The characters of the texts of the search pool's cells.
Letters(text) ==
    CASE text = "" -> <<>>
      [] text = "COMP101" -> <<"C", "O", "M", "P", "1", "0", "1">>
      [] text = "COMP102" -> <<"C", "O", "M", "P", "1", "0", "2">>
      [] text = "MATH201" -> <<"M", "A", "T", "H", "2", "0", "1">>
      [] text = "Algebra" -> <<"A", "l", "g", "e", "b", "r", "a">>
      [] text = "Compilers" -> <<"C", "o", "m", "p", "i", "l", "e", "r", "s">>
      [] text = "math 101" -> <<"m", "a", "t", "h", " ", "1", "0", "1">>
      [] text = "CS" -> <<"C", "S">>
      [] text = "Math" -> <<"M", "a", "t", "h">>
      [] text = "cs and maths" ->
            <<"c", "s", " ", "a", "n", "d", " ", "m", "a", "t", "h", "s">>

\* str.lower() and str.upper(), on letters A to Z
lower(s) ==
    [i \in 1..Len(s) |->
        IF \E k \in 1..26 : UpperLetters[k] = s[i]
        THEN LowerLetters[CHOOSE k \in 1..26 : UpperLetters[k] = s[i]]
        ELSE s[i]]

upper(s) ==
    [i \in 1..Len(s) |->
        IF \E k \in 1..26 : LowerLetters[k] = s[i]
        THEN UpperLetters[CHOOSE k \in 1..26 : LowerLetters[k] = s[i]]
        ELSE s[i]]

\* part in s
In(part, s) ==
    \E i \in 0..(Len(s) - Len(part)) : SubSeq(s, i + 1, i + Len(part)) = part

\* A search whose two filters are alternatives.
search_courses_either(catalog, query, department, semester) ==
    SelectSeq(get_courses_by_semester(catalog, semester),
              LAMBDA course_info :
                  \/ query = <<>> \/ department = <<>>
                  \/ In(lower(query), lower(Letters(course_info.code)))
                  \/ In(lower(query), lower(Letters(course_info.title)))
                  \/ In(upper(department), upper(Letters(course_info.department))))

\* search_courses(query, department, semester): the matching offerings in the
\* order of the semester's dict
search_courses(catalog, query, department, semester) ==
    LET semester_courses == get_courses_by_semester(catalog, semester)
        q == IF query # <<>> THEN lower(query) ELSE <<>>
        d == IF department # <<>> THEN upper(department) ELSE <<>>
        QueryMatch(course_info) ==
            IF q # <<>>
            THEN \/ In(q, lower(Letters(course_info.code)))
                 \/ In(q, lower(Letters(course_info.title)))
            ELSE TRUE
        Match(course_info) ==
            IF d # <<>> /\ QueryMatch(course_info)
            THEN In(d, upper(Letters(course_info.department)))
            ELSE QueryMatch(course_info)
    IN SelectSeq(semester_courses, Match)

\* The rows of the workbooks that are searched: three courses with their
\* titles and departments, one with neither, in two semesters.
SearchPool ==
    << [Row("COMP101", <<"1", "A">>, "001", {"MON"}, T0900, T1000, "Room A", "Ann")
          EXCEPT !.title = "Algebra", !.dept = "cs and maths"],
       [Row("COMP102", <<"1", "A">>, "002", {"TUE"}, T0900, T1000, "Room B", "Bob")
          EXCEPT !.title = "Compilers", !.dept = "CS"],
       [Row("MATH201", <<"1", "A">>, "003", {"WED"}, T0900, T1000, "Room C", "Cy")
          EXCEPT !.title = "math 101", !.dept = "Math"],
       [Row("COMP102", <<"2", "A">>, "010", {"FRI"}, T0900, T1000, "Room B", "Bob")
          EXCEPT !.title = "Compilers", !.dept = "CS"],
       [Row("MATH201", <<"2", "A">>, "011", {"THU"}, T0900, T1000, "Room C", "Cy")
          EXCEPT !.title = NaNText, !.dept = NaNText],
       [Row("MATH201", <<"1", "B">>, "012", {"THU"}, T0900, T1000, "Room C", "Cy")
          EXCEPT !.title = "Algebra", !.dept = "CS"] >>

\* The most rows of a searched workbook.
MaxSearchRows == 3

\* The texts a search may ask for: none, parts of codes and titles in either
\* case, and one that nothing holds.
ArgQueries ==
    {<<>>, <<"C", "o", "M", "p", "1">>, <<"1", "0", "1">>, <<"A", "L", "G">>, <<"z">>}

ArgDepartments == {<<>>, <<"c", "s">>, <<"M", "A", "T", "H">>, <<"z">>}

\* The semesters a search may name: two with courses, one without and one
\* that is no partition.
ArgSearchSemesters == {"Sem1", "Sem2", "Summer", "Sem9"}

SearchResponse(query, department, semester, results) ==
    [op |-> "search", query |-> query, department |-> department,
     semester |-> semester, results |-> results]

\* GET /api/courses, before the page is cut out of the results
SearchCourses ==
    /\ \E query \in ArgQueries, department \in ArgDepartments,
          semester \in ArgSearchSemesters :
           last' = SearchResponse(query, department, semester,
                       search_courses(processed_courses, query, department, semester))
    /\ UNCHANGED <<xlsx, cache, clock, processed_courses, ctor, session>>

InitSearch ==
    /\ xlsx = NoFile
    /\ cache = NoCache
    /\ clock = 0
    /\ ctor = NoCtor
    /\ processed_courses \in
          {process_courses([i \in 1..Len(q) |-> SearchPool[q[i]]]) :
              q \in SeqsUpTo(1..Len(SearchPool), MaxSearchRows) \ {<<>>}}
    /\ session = NoSession
    /\ last = NoResponse

NextSearch == SearchCourses

SpecSearch == InitSearch /\ [][NextSearch]_vars

(***************************************************************************)
(* The vocabulary of the properties                                        *)
(***************************************************************************)
TwoDigits(s, i) == 10 * DigitVal(s[i]) + DigitVal(s[i + 1])

\* A time string of the data model: "HH:MM" or "HH:MM:SS".
WellFormedTime(s) ==
    /\ Len(s) \in {5, 8}
    /\ \A i \in {1, 2, 4, 5} : IsDigit(s[i])
    /\ s[3] = ":"
    /\ TwoDigits(s, 1) <= 23 /\ TwoDigits(s, 4) <= 59
    /\ Len(s) = 8 =>
          s[6] = ":" /\ IsDigit(s[7]) /\ IsDigit(s[8]) /\ TwoDigits(s, 7) <= 59

\* The second of the day a well-formed time string names.
SecondsOf(s) ==
    3600 * TwoDigits(s, 1) + 60 * TwoDigits(s, 4)
    + (IF Len(s) = 8 THEN TwoDigits(s, 7) ELSE 0)

\* Two intervals of well-formed times with A.start < B.end and B.start < A.end.
TrulyOverlap(start1, end1, start2, end2) ==
    /\ WellFormedTime(start1) /\ WellFormedTime(end1)
    /\ WellFormedTime(start2) /\ WellFormedTime(end2)
    /\ SecondsOf(start1) < SecondsOf(end2)
    /\ SecondsOf(start2) < SecondsOf(end1)

CodesOf(schedule) == {schedule[n].course_code : n \in 1..Len(schedule)}

NoDuplicateCourse(schedule) ==
    \A m, n \in 1..Len(schedule) :
        m # n => schedule[m].course_code # schedule[n].course_code

\* The selection the last request named.
LastItem == [course_code |-> last.course_code, subclass |-> last.subclass]

\* The schedule of the request's semester as the last request found it.
LastBefore == last.before[last.semester]

\* The last request ran the conflict detector, on the schedule Examined.
Detected ==
    \/ last.op = "conflicts"
    \/ last.op = "add" /\ last.status = 200
    \/ last.op = "add" /\ last.error = "Time conflict detected"

Examined ==
    IF last.op = "add" THEN Append(LastBefore, LastItem) ELSE LastBefore

\* The weekly intervals of the examined selections.
ExaminedIntervals == ExpandSchedule(processed_courses, Examined, last.semester)

\* The entries of the returned list that name the pair of descriptions (a, b).
Reports(a, b) == {k \in 1..Len(last.conflicts) : last.conflicts[k] = <<a, b>>}

\* The pairs of examined intervals described (a, b), on one weekday, whose
\* well-formed times overlap.
OverlappingPairs(a, b) ==
    LET ts == ExaminedIntervals IN
    {p \in (1..Len(ts)) \X (1..Len(ts)) :
        /\ p[1] < p[2]
        /\ ts[p[1]].course = a /\ ts[p[2]].course = b
        /\ ts[p[1]].day = ts[p[2]].day
        /\ TrulyOverlap(ts[p[1]].start, ts[p[1]].end, ts[p[2]].start, ts[p[2]].end)}

Descriptions == {ExaminedIntervals[i].course : i \in 1..Len(ExaminedIntervals)}

OverlapsSelection(item, schedule, semester) ==
    \E n \in 1..Len(schedule) :
        /\ Resolves(processed_courses, schedule[n], semester)
        /\ \E a \in Range(ResolvedSubclass(processed_courses, item, semester).time_slots),
              b \in Range(ResolvedSubclass(processed_courses, schedule[n],
                                           semester).time_slots) :
              /\ Range(a.days) \cap Range(b.days) # {}
              /\ TrulyOverlap(a.start_time, a.end_time, b.start_time, b.end_time)

\* C2: an add of a valid (code, label) whose code is not in the schedule and
\* whose subclass overlaps a selection of the schedule is rejected with the
\* time conflict error and a non-empty list of pairs, and the session is as
\* it was.
C2_ConflictingAddRejected ==
    (/\ last.op = "add"
     /\ Resolves(processed_courses, LastItem, last.semester)
     /\ last.course_code \notin CodesOf(LastBefore)
     /\ OverlapsSelection(LastItem, LastBefore, last.semester)) =>
        /\ last.status = 400
        /\ last.error = "Time conflict detected"
        /\ last.conflicts # <<>>
        /\ session = last.before

(***************************************************************************)
(* C3                                                                      *)
(***************************************************************************)
\* C3: the list the conflict detector returns holds one entry for each pair
\* of examined intervals on one weekday whose well-formed times ("HH:MM" or
\* "HH:MM:SS") overlap: not fewer, and no more where every time is well-formed.
C3_OverlapReportedOnce ==
    Detected =>
        \A a, b \in Descriptions :
            /\ Cardinality(Reports(a, b)) >= Cardinality(OverlappingPairs(a, b))
            /\ (\A i \in 1..Len(ExaminedIntervals) :
                    /\ WellFormedTime(ExaminedIntervals[i].start)
                    /\ WellFormedTime(ExaminedIntervals[i].end))
               => Cardinality(Reports(a, b)) = Cardinality(OverlappingPairs(a, b))

(***************************************************************************)
(* C4                                                                      *)
(***************************************************************************)
\* C4: the conflict detector reports a pair only for two intervals on the
\* same weekday whose times overlap, so that intervals that touch (the end of
\* one is the start of the other), intervals on different days and slots
\* with no day are never reported.
C4_OnlyOverlapsReported ==
    Detected =>
        /\ \A k \in 1..Len(last.conflicts) :
              /\ last.conflicts[k][1] \in Descriptions
              /\ last.conflicts[k][2] \in Descriptions
        /\ \A a, b \in Descriptions :
              Cardinality(Reports(a, b)) <= Cardinality(OverlappingPairs(a, b))

\* Two examined intervals touch on a weekday and nothing was reported.
C4_Witness ==
    /\ Detected
    /\ last.conflicts = <<>>
    /\ \E i, j \in 1..Len(ExaminedIntervals) :
          /\ i < j
          /\ ExaminedIntervals[i].day = ExaminedIntervals[j].day
          /\ WellFormedTime(ExaminedIntervals[i].end)
          /\ WellFormedTime(ExaminedIntervals[j].start)
          /\ SecondsOf(ExaminedIntervals[i].end) = SecondsOf(ExaminedIntervals[j].start)

(***************************************************************************)
(* C5                                                                      *)
(***************************************************************************)
\* The catalog was built from the workbook now on disk.
Built == ctor.path \in {"rebuilt", "recovered"} /\ ctor.pre_xlsx = xlsx

\* The rows of the (course code, semester, class number) group, by index.
GroupRows(code, semester, class_number) ==
    {i \in 1..Len(xlsx.rows) :
        /\ xlsx.rows[i].code = code
        /\ get_semester_from_section(xlsx.rows[i].section) = semester
        /\ TextOrEmpty(xlsx.rows[i].class_number) = class_number}

\* The rows of a group that are the first of the group with their day-set.
FirstOfDaySet(G) ==
    {i \in G : \A j \in G : j < i => xlsx.rows[j].flags # xlsx.rows[i].flags}

\* The t-th row of K in input order.
Nth(K, t) == CHOOSE i \in K : Cardinality({j \in K : j < i}) = t - 1

SlotIsRow(slot, row) ==
    /\ Range(slot.days) = row.flags
    /\ slot.start_time = StrOrEmpty(row.start_time)
    /\ slot.end_time = StrOrEmpty(row.end_time)
    /\ slot.venue = TextOrEmpty(row.venue)
    /\ slot.instructor = TextOrEmpty(row.instructor)

\* C5: in every built subclass no two time slots have equal day-sets, and its
\* time slots are, in input order, the rows of its (course code, semester,
\* class number) group that are the first of the group with their day-set,
\* each with that row's times, venue and instructor.
C5_FirstOfEachDaySet ==
    Built =>
        \A k \in 1..Len(processed_courses) :
            \A c \in Range(processed_courses[k].courses) :
                \A sc \in Range(c.subclasses) :
                    LET K == FirstOfDaySet(GroupRows(c.code,
                                 processed_courses[k].semester, sc.class_number))
                        slots == sc.time_slots
                    IN /\ Len(slots) = Cardinality(K)
                       /\ \A t \in 1..Len(slots) :
                             SlotIsRow(slots[t], xlsx.rows[Nth(K, t)])
                       /\ \A t, u \in 1..Len(slots) :
                             t # u => Range(slots[t].days) # Range(slots[u].days)

\* A subclass was built from three rows, one of them left out as a repeated
\* day-set between two that were kept.
C5_Witness ==
    /\ Built
    /\ \E k \in 1..Len(processed_courses) :
          \E c \in Range(processed_courses[k].courses) :
              \E sc \in Range(c.subclasses) :
                  LET G == GroupRows(c.code, processed_courses[k].semester,
                                     sc.class_number)
                  IN /\ Len(sc.time_slots) = 2
                     /\ Cardinality(G) = 3
                     /\ \E i \in G \ FirstOfDaySet(G) :
                           (\E j \in G : j > i) /\ (\E j \in G : j < i)
                     /\ sc.time_slots[1].start_time # sc.time_slots[2].start_time

(***************************************************************************)
(* C6                                                                      *)
(***************************************************************************)
\* The class numbers of the rows of a (course code, semester) group.
ClassNumbersOf(code, semester) ==
    {TextOrEmpty(xlsx.rows[i].class_number) :
        i \in {j \in 1..Len(xlsx.rows) :
                 /\ xlsx.rows[j].code = code
                 /\ get_semester_from_section(xlsx.rows[j].section) = semester}}

\* C6: the offering of every (course code, semester) group holds one
\* subclass for each class number of the group's rows, and no two of its
\* subclasses have the same class number.
C6_SubclassPerClassNumber ==
    Built =>
        \A k \in 1..Len(processed_courses) :
            \A c \in Range(processed_courses[k].courses) :
                LET numbers == ClassNumbersOf(c.code, processed_courses[k].semester)
                IN /\ {sc.class_number : sc \in Range(c.subclasses)} = numbers
                   /\ Len(c.subclasses) = Cardinality(numbers)

(***************************************************************************)
(* C9                                                                      *)
(***************************************************************************)
\* C9: a construction rebuilds the catalog from the workbook when there is
\* no snapshot or the workbook is newer than it, takes the snapshot's content
\* as it is otherwise, and rebuilds when that snapshot cannot be read; it
\* ends with a catalog; and a construction that follows a rebuild whose
\* snapshot was written, with the workbook and the snapshot as they were
\* left, loads the snapshot.
C9_LoadOrRebuild ==
    ctor.path # "" =>
        /\ ctor.path =
              (IF ~ctor.pre_cache.exists \/ ctor.pre_xlsx.mtime > ctor.pre_cache.mtime
               THEN "rebuilt"
               ELSE IF ctor.pre_cache.readable THEN "snapshot" ELSE "recovered")
        /\ ctor.path = "snapshot" => processed_courses = ctor.pre_cache.data
        /\ ctor.path # "snapshot" =>
              processed_courses = process_courses(ctor.pre_xlsx.rows)
        /\ processed_courses # None
        /\ ctor.was_intact =>
              /\ ctor.path = "snapshot"
              /\ processed_courses = process_courses(ctor.pre_xlsx.rows)

\* A construction loaded the snapshot that the construction before it wrote,
\* at a later time of the clock.
C9_Witness ==
    /\ ctor.path = "snapshot"
    /\ ctor.was_intact
    /\ clock > ctor.pre_cache.mtime
    /\ ctor.pre_cache.mtime = ctor.pre_xlsx.mtime
    /\ processed_courses # None

(***************************************************************************)
(* C7                                                                      *)
(***************************************************************************)
\* The last request was an export that returned a document.
Exported == last.op = "export" /\ last.status = 200

\* The (selection, time slot, day) triples of the exported schedule, by
\* position, whose start and end times are well-formed.
SlotDays ==
    {src \in UNION {UNION {{<<n, t, d>> :
                d \in 1..Len(ResolvedSubclass(processed_courses, LastBefore[n],
                                 last.semester).time_slots[t].days)} :
            t \in 1..Len(ResolvedSubclass(processed_courses, LastBefore[n],
                             last.semester).time_slots)} :
        n \in {m \in 1..Len(LastBefore) :
                 Resolves(processed_courses, LastBefore[m], last.semester)}} :
        LET slot == ResolvedSubclass(processed_courses, LastBefore[src[1]],
                                     last.semester).time_slots[src[2]]
        IN WellFormedTime(slot.start_time) /\ WellFormedTime(slot.end_time)}

\* C7: an export of a schedule reached through successful adds emits one
\* event block for each (selected subclass, time slot, weekday of the slot)
\* with parsable times and no other block, and no two blocks of the document
\* have the same UID.
C7_OneBlockEachDistinctUid ==
    Exported =>
        /\ \A src \in SlotDays :
              Cardinality({i \in 1..Len(last.events) : last.events[i].src = src}) = 1
        /\ \A i \in 1..Len(last.events) : last.events[i].src \in SlotDays
        /\ \A i, j \in 1..Len(last.events) :
              i # j => last.events[i].uid # last.events[j].uid

(***************************************************************************)
(* C8                                                                      *)
(***************************************************************************)
\* The weekday number of a day code, Monday 0.
WeekdayOf(day) ==
    CASE day = "MON" -> 0 [] day = "TUE" -> 1 [] day = "WED" -> 2
      [] day = "THU" -> 3 [] day = "FRI" -> 4 [] day = "SAT" -> 5
      [] day = "SUN" -> 6

\* The yyyymmdd number of a date.
DateNumber(n) == format_datetime_tz(n, <<0, 0, 0>>)[1]

\* C8: every event of an export starts on the earliest date on or after the
\* window's start that falls on the event's weekday, 0 to 6 days after the
\* start; the search for that date ends; its UNTIL is the window's end date
\* at 23:59:59; and the window is Sep 1 to Dec 20 of the current year for
\* Sem1, Feb 1 to May 31 for Sem2 and Jun 1 to Aug 31 for Summer.
C8_FirstOccurrenceAndUntil ==
    Exported =>
        LET start == last.window[1]
            end == last.window[2]
            year == DateNumber(last.today) \div 10000
        IN /\ \A i \in 1..Len(last.events) :
                 LET e == last.events[i] IN
                 /\ e.first # -1
                 /\ e.first \in start..(start + 6)
                 /\ Weekday(e.first) = WeekdayOf(e.uid[3])
                 /\ \A n \in start..(e.first - 1) : Weekday(n) # WeekdayOf(e.uid[3])
                 /\ e.dtstart[1] = DateNumber(e.first)
                 /\ e.dtend[1] = DateNumber(e.first)
                 /\ e.until = <<DateNumber(end), 235959>>
           /\ last.semester = "Sem1" =>
                 DateNumber(start) = year * 10000 + 901
                 /\ DateNumber(end) = year * 10000 + 1220
           /\ last.semester = "Sem2" =>
                 DateNumber(start) = year * 10000 + 201
                 /\ DateNumber(end) = year * 10000 + 531
           /\ last.semester = "Summer" =>
                 DateNumber(start) = year * 10000 + 601
                 /\ DateNumber(end) = year * 10000 + 831

\* A Sem1 export holds an event that starts on the window's first day and
\* one that starts six days after it.
C8_Witness ==
    /\ Exported
    /\ last.semester = "Sem1"
    /\ \E i, j \in 1..Len(last.events) :
          /\ last.events[i].first = last.window[1]
          /\ last.events[j].first = last.window[1] + 6
          /\ last.events[j].until[1] = (DateNumber(last.today) \div 10000) * 10000 + 1220

(***************************************************************************)
(* C10                                                                     *)
(***************************************************************************)
\* The pairs of examined intervals described (a, b) whose four times are
\* all well-formed.
WellFormedPairs(a, b) ==
    LET ts == ExaminedIntervals IN
    {p \in (1..Len(ts)) \X (1..Len(ts)) :
        /\ p[1] < p[2]
        /\ ts[p[1]].course = a /\ ts[p[2]].course = b
        /\ WellFormedTime(ts[p[1]].start) /\ WellFormedTime(ts[p[1]].end)
        /\ WellFormedTime(ts[p[2]].start) /\ WellFormedTime(ts[p[2]].end)}

\* A time of the exported schedule's slots is not well-formed.
SomeTimeMalformed(schedule, semester) ==
    \E n \in 1..Len(schedule) :
        /\ Resolves(processed_courses, schedule[n], semester)
        /\ \E slot \in Range(ResolvedSubclass(processed_courses, schedule[n],
                                                semester).time_slots) :
              /\ slot.days # <<>>
              /\ ~(WellFormedTime(slot.start_time) /\ WellFormedTime(slot.end_time))

\* C10: every request is answered; the conflict detector reports no pair
\* that has a time that is not well-formed; an export of a non-empty schedule
\* returns a document, whose events are those of the (selection, slot, day)
\* triples with well-formed start and end and of no other.
C10_MalformedTimesFailOpen ==
    /\ last.op # "" => last.status \in {200, 400}
    /\ Detected =>
          \A a, b \in Descriptions :
              Cardinality(Reports(a, b)) <= Cardinality(WellFormedPairs(a, b))
    /\ (last.op = "export" /\ LastBefore # <<>>) =>
          /\ last.status = 200
          /\ {last.events[i].src : i \in 1..Len(last.events)} = SlotDays

\* An export of a schedule of two selections, one with a slot whose end time
\* is not a time, returned a document with the events of the other and of
\* its slot in the format without seconds.
C10_Witness ==
    /\ Exported
    /\ Len(LastBefore) = 2
    /\ SomeTimeMalformed(LastBefore, last.semester)
    /\ last.events # <<>>

(***************************************************************************)
(* C11                                                                     *)
(***************************************************************************)
\* Two characters that are one letter, in either case.
SameLetter(a, b) ==
    \/ a = b
    \/ \E k \in 1..26 : {a, b} = {UpperLetters[k], LowerLetters[k]}

\* `part` occurs in `text`, letters compared without their case.
OccursIgnoringCase(part, text) ==
    \E i \in 0..(Len(text) - Len(part)) :
        \A k \in 1..Len(part) : SameLetter(part[k], text[i + k])

\* The offering passes the two filters of the last search.
Wanted(c) ==
    /\ \/ last.query = <<>>
       \/ OccursIgnoringCase(last.query, Letters(c.code))
       \/ OccursIgnoringCase(last.query, Letters(c.title))
    /\ \/ last.department = <<>>
       \/ OccursIgnoringCase(last.department, Letters(c.department))

\* The offerings of the searched semester, in the catalog's order; none for a
\* semester the catalog has no partition of.
Partition ==
    IF \E k \in 1..Len(processed_courses) :
           processed_courses[k].semester = last.semester
    THEN processed_courses[CHOOSE k \in 1..Len(processed_courses) :
             processed_courses[k].semester = last.semester].courses
    ELSE <<>>

\* C11: a search returns the offerings of the semester's partition whose code
\* or title holds the query text (when there is one) and whose department
\* holds the department text (when there is one), letters compared without
\* case, each once and in the partition's order; for a semester that is no
\* partition it returns the empty list.
C11_SearchReturnsMatches ==
    last.op = "search" =>
        /\ \A c \in Range(Partition) : Wanted(c) <=> c \in Range(last.results)
        /\ Range(last.results) \subseteq Range(Partition)
        /\ \A i, j \in 1..Len(last.results) :
              i < j => \E m, n \in 1..Len(Partition) :
                          /\ m < n
                          /\ Partition[m] = last.results[i]
                          /\ Partition[n] = last.results[j]
        /\ last.semester \notin Range(Semesters) => last.results = <<>>

\* A search with both texts, in a case other than the catalog's, returned
\* some offerings of a partition of three and left one out.
C11_Witness ==
    /\ last.op = "search"
    /\ last.query # <<>> /\ last.department # <<>>
    /\ last.query # lower(last.query)
    /\ Len(Partition) = 3
    /\ Len(last.results) = 2
    /\ \E c \in Range(last.results) :
          ~In(last.department, Letters(c.department))

(***************************************************************************)
(* C12                                                                     *)
(***************************************************************************)
\* C12: whatever adds and removals, accepted or rejected, a session has
\* seen, the conflict check of every semester's schedule returns the empty
\* list, and so does every conflict check that was asked for.
C12_CheckConflictsEmpty ==
    /\ \A s \in ArgSemesters :
          get_time_conflict(processed_courses, session[s], s) = <<>>
    /\ last.op = "conflicts" => last.conflicts = <<>>

\* A conflict check answered for a schedule of two selections that meet on
\* one weekday.
C12_Witness ==
    /\ last.op = "conflicts"
    /\ last.conflicts = <<>>
    /\ Len(LastBefore) = 2
    /\ \E i, j \in 1..Len(ExaminedIntervals) :
          /\ ExaminedIntervals[i].course # ExaminedIntervals[j].course
          /\ ExaminedIntervals[i].day = ExaminedIntervals[j].day

(***************************************************************************)
(* C13                                                                     *)
(***************************************************************************)
\* C13: an add of a (code, label) that names a subclass of the semester,
\* whose code is not in the semester's schedule and whose time slots overlap
\* no time slot of a selection of the schedule, is answered with success and
\* appends the selection; so every subclass can be added to an empty schedule.
C13_AddSucceedsUnlessConflict ==
    (/\ last.op = "add"
     /\ Resolves(processed_courses, LastItem, last.semester)
     /\ last.course_code \notin CodesOf(LastBefore)
     /\ ~OverlapsSelection(LastItem, LastBefore, last.semester)) =>
        /\ last.status = 200
        /\ Len(session[last.semester]) = Len(LastBefore) + 1
        /\ \A n \in 1..Len(LastBefore) : session[last.semester][n] = LastBefore[n]
        /\ session[last.semester][Len(LastBefore) + 1].course_code = last.course_code
        /\ session[last.semester][Len(LastBefore) + 1].subclass = last.subclass

(***************************************************************************)
(* C14                                                                     *)
(***************************************************************************)
\* The positions of a schedule whose entry is not of the course `code`.
Others(schedule, code) ==
    {n \in 1..Len(schedule) : schedule[n].course_code # code}

\* C14: a removal leaves in the semester's schedule the entries of other
\* course codes, all of them, in the order they had, and none of the code;
\* it leaves the schedule as it was when the code was not in it; and a
\* removal or an add, accepted or rejected, leaves the schedules of the other
\* semesters as they were.
C14_RemoveFrame ==
    /\ last.op = "remove" =>
          LET kept == Others(LastBefore, last.course_code)
              after == session[last.semester]
          IN /\ Len(after) = Cardinality(kept)
             /\ \A n \in kept :
                   after[Cardinality({m \in kept : m <= n})] = LastBefore[n]
             /\ last.course_code \notin CodesOf(after)
             /\ last.course_code \notin CodesOf(LastBefore) => session = last.before
    /\ last.op \in {"remove", "add"} =>
          \A s \in ArgSemesters \ {last.semester} : session[s] = last.before[s]

\* A removal took the first of two entries out of a schedule and left the
\* second.
C14_Witness ==
    /\ last.op = "remove"
    /\ Len(LastBefore) = 2
    /\ LastBefore[1].course_code = last.course_code
    /\ session[last.semester] = <<LastBefore[2]>>

====
